---- MODULE Spec2Model ----
(***************************************************************************)
(* Model of the F-CAD2 recursive-descent parser (src/parser.py) and of the *)
(* primitive numeric adapter (src/AST/numerical.py, src/numerical.py).     *)
(*                                                                         *)
(* A Parser object is the pair (tokens, pos).  Every method of the class   *)
(* is an operator from the cursor position at the call to an outcome       *)
(* record [err, pos, val, miss]:                                           *)
(*   err   "none" when the method returns, else the name of the Python     *)
(*         exception that leaves it;                                       *)
(*   pos   the value of self.pos when the method returns or raises;        *)
(*   val   the returned value (an AST node, a list, a raw token value);    *)
(*   miss  history flag: some token the grammar required at the cursor     *)
(*         was absent (a failed eat, a read past the last token, or atom   *)
(*         finding no atom at the cursor).                                 *)
(* Python lists are sequences, dicts are functions, None is the record     *)
(* None, AST nodes are records tagged by their class name in field k.      *)
(* The tokenizer is external: token streams are non-empty and end with one *)
(* EOF token; TokenType is taken to be an enumeration, so that no member   *)
(* equals a plain string such as "KEYWORD".                                *)
(***************************************************************************)
EXTENDS Integers, Sequences, FiniteSets, TLC

VARIABLES tokens, pos, status, op, result, this, other, method, boxed

vars == <<tokens, pos, status, op, result, this, other, method, boxed>>

parserVars == <<tokens, pos, status, op, result>>

numVars == <<this, other, method, boxed>>

-----------------------------------------------------------------------------
(* Token kinds (tokenizer.TokenType) and tokens.                           *)

NAME == "TokenType.NAME"
NUMBER == "TokenType.NUMBER"
STRING_ == "TokenType.STRING"
OPERATOR == "TokenType.OPERATOR"
KEYWORD == "TokenType.KEYWORD"
GROUP == "TokenType.GROUP"
COMMA == "TokenType.COMMA"
COLON == "TokenType.COLON"
QUESTION == "TokenType.QUESTION"
ELLIPSIS == "TokenType.ELLIPSIS"
ARROW == "TokenType.ARROW"
ASSIGNMENT == "TokenType.ASSIGNMENT"
SEMICOLON == "TokenType.SEMICOLON"
DOT == "TokenType.DOT"
SEPARATOR == "TokenType.SEPARATOR"
EOF == "TokenType.EOF"

None == [k |-> "None"]

\* value=None default of eat
NoValue == "<no value>"

Tok(type, value) == [type |-> type, value |-> value]

\* a Python number: its type and its value n/d
PyNum(t, n, d) == [t |-> t, n |-> n, d |-> d]

\* token.value == s for a string s (a number or None never equals a string)
ValueIs(tok, s) == tok.type \notin {NUMBER, EOF} /\ tok.value = s

ValueIn(tok, S) == tok.type \notin {NUMBER, EOF} /\ tok.value \in S

-----------------------------------------------------------------------------
(* Outcomes.                                                               *)

Ok(p, v, m) == [err |-> "none", pos |-> p, val |-> v, miss |-> m]

Raise(e, p, m) == [err |-> e, pos |-> p, val |-> None, miss |-> m]

Failed(r) == r.err # "none"

\* an exception passing through a frame that had already seen m
Fail(r, m) == [r EXCEPT !.miss = @ \/ m]

-----------------------------------------------------------------------------
(* Parser.operator_names, comparation_operators                            *)

comparation_operators == {"==", "!=", "<", "<=", ">", ">="}

operator_names ==
  [o \in {"==", "!=", "<", "<=", ">", ">=", "in", "+", "-", "*", "/", "%", "^"} |->
    CASE o = "==" -> "#equal"
      [] o = "!=" -> "#not_equal"
      [] o = "<"  -> "#lesser"
      [] o = "<=" -> "#lesser_equal"
      [] o = ">"  -> "#greater"
      [] o = ">=" -> "#greater_equal"
      [] o = "in" -> "#contains"
      [] o = "+"  -> "#add"
      [] o = "-"  -> "#substract"
      [] o = "*"  -> "#multiply"
      [] o = "/"  -> "#divide"
      [] o = "%"  -> "#modulo"
      [] o = "^"  -> "#exponent"]

show_errors == TRUE

-----------------------------------------------------------------------------
(* AST node constructors (the classes imported at the top of parser.py).   *)

Int_(v) == [k |-> "Int", value |-> v]
Float(v) == [k |-> "Float", value |-> v]
Bool(v) == [k |-> "Bool", value |-> v]
String(v) == [k |-> "String", value |-> v]
Constant(v) == [k |-> "Constant", value |-> v]
Variable(n) == [k |-> "Variable", name |-> n]
OperatorCall(n, a) == [k |-> "OperatorCall", name |-> n, args |-> a]
AndOperation(l, r) == [k |-> "AndOperation", left |-> l, right |-> r]
OrOperation(l, r) == [k |-> "OrOperation", left |-> l, right |-> r]
NotOperation(v) == [k |-> "NotOperation", value |-> v]
ContainsOperation(v, c) == [k |-> "ContainsOperation", value |-> v, container |-> c]
MemberAccess(o, n) == [k |-> "MemberAccess", object |-> o, name |-> n]
MemberCall(o, n, a, kw) == [k |-> "MemberCall", object |-> o, name |-> n, args |-> a, kwargs |-> kw]
FunctionCall(f, a, kw) == [k |-> "FunctionCall", function |-> f, args |-> a, kwargs |-> kw]
ItemAccess(o, a) == [k |-> "ItemAccess", object |-> o, args |-> a]
ConstructorCall(t, a, kw) == [k |-> "ConstructorCall", type |-> t, args |-> a, kwargs |-> kw]
TupleConstant(a) == [k |-> "TupleConstant", arguments |-> a]
ArrayConstant(a) == [k |-> "ArrayConstant", arguments |-> a]
DictionaryConstant(l) == [k |-> "DictionaryConstant", lines |-> l]
Destructuring(n) == [k |-> "Destructuring", names |-> n]
UnpackOperation(v) == [k |-> "UnpackOperation", value |-> v]
Assignment(o, v) == [k |-> "Assignment", object |-> o, value |-> v]
FunctionCreate(b, n, va, d) == [k |-> "FunctionCreate", body |-> b, names |-> n, var_arg_name |-> va, default_args |-> d]
ClassCreate(n, m, s, p) == [k |-> "ClassCreate", name |-> n, methods |-> m, statics |-> s, parent_name |-> p]
StatementList(s) == [k |-> "StatementList", statements |-> s]
ExprStatement(e) == [k |-> "ExprStatement", expr |-> e]
ReturnStatement(e) == [k |-> "ReturnStatement", expr |-> e]
RaiseStatement(e) == [k |-> "RaiseStatement", expr |-> e]
BreakStatement == [k |-> "BreakStatement"]
ContinueStatement == [k |-> "ContinueStatement"]
ConditionalStatement(c, b, e) == [k |-> "ConditionalStatement", condition |-> c, body |-> b, else_body |-> e]
WhileStatement(c, b) == [k |-> "WhileStatement", condition |-> c, body |-> b]
ForStatement(n, i, b) == [k |-> "ForStatement", names |-> n, iterable |-> i, body |-> b]
ListComprehension(o, v, i, c) == [k |-> "ListComprehension", operation |-> o, iter_vars |-> v, iterable |-> i, conditions |-> c]
ConditionalExpression(c, i, e) == [k |-> "ConditionalExpression", condition |-> c, if_expr |-> i, else_expr |-> e]

\* isinstance(node, IAssignable)
IAssignable(node) == node.k \in {"Variable", "MemberAccess", "ItemAccess", "Destructuring"}

Reverse(s) == [i \in 1..Len(s) |-> s[Len(s) + 1 - i]]

-----------------------------------------------------------------------------
(* Cursor primitives.                                                      *)

RECURSIVE error(_)
\* self.error() entered with self.pos = p; printing reads self.token first
error(p) ==
  IF ~show_errors THEN Raise("SyntaxError", p, TRUE)
  ELSE IF p < Len(tokens)
       THEN IF p < 0 - Len(tokens) THEN Raise("IndexError", p, TRUE)
            ELSE Raise("SyntaxError", p, TRUE)
       ELSE error(p - 1)

\* the token property: the test, the value returned, the raise
token_ok(p) == p < Len(tokens)

token(p) == tokens[p + 1]

\* a token property that stepped back two tokens before raising
token_raise_far(p) == error(p - 2)

\* line 54-55: self.pos -= 1, then self.error()
token_raise(p) == error(p - 1)

next_token(p) ==
  IF p < Len(tokens) - 1 THEN Ok(p, tokens[p + 2], FALSE) ELSE error(p)

prev_token(p) ==
  IF p > 0 THEN Ok(p, tokens[p], FALSE) ELSE error(p)

eat(p, type, value) ==
  IF ~token_ok(p) THEN token_raise(p)
  ELSE IF token(p).type # type \/ (value # NoValue /\ ~ValueIs(token(p), value))
       THEN error(p)
       ELSE Ok(p + 1, token(p).value, FALSE)

RECURSIVE find_next_loop(_, _)
find_next_loop(p, type) ==
  IF ~token_ok(p) THEN token_raise(p)
  ELSE IF token(p).type # type THEN find_next_loop(p + 1, type)
       ELSE Ok(p, p, FALSE)

\* v = <call>; <rest of the method>: the rest runs on the outcome of the call
Bind(r, rest(_)) == rest(r)

find_next(p, type) ==
  Bind(find_next_loop(p, type), LAMBDA r :
     IF Failed(r) THEN r ELSE Ok(p, r.val, FALSE))

-----------------------------------------------------------------------------
(* The grammar.  Every production below is the method of the same name;    *)
(* a while loop is the operator <method>_loop over the loop's variables.   *)

RECURSIVE self(_, _)
RECURSIVE statement_list_loop(_, _, _), class_definition_loop(_, _, _, _)
RECURSIVE function_definition_loop(_, _, _, _)
RECURSIVE expr_list(_, _), expr_list_loop(_, _, _, _, _, _)
RECURSIVE trailer_expr_loop(_, _, _), atom_dict_loop(_, _, _)

RECURSIVE name_list_loop(_, _)
name_list_loop(p, names) ==
  IF ~token_ok(p) THEN token_raise(p)
  ELSE IF token(p).type # COMMA THEN Ok(p, names, FALSE)
  ELSE Bind(eat(p, COMMA, NoValue), LAMBDA c :
          IF Failed(c) THEN c
          ELSE Bind(eat(c.pos, NAME, NoValue), LAMBDA n :
                  IF Failed(n) THEN n ELSE name_list_loop(n.pos, Append(names, n.val))))

name_list(p) ==
  Bind(eat(p, NAME, NoValue), LAMBDA n :
     IF Failed(n) THEN n ELSE name_list_loop(n.pos, <<n.val>>))

\* atom, line 367-371: the branch for "new"
atom_new(p) ==
  Bind(eat(p, KEYWORD, NoValue), LAMBDA k :
     IF Failed(k) THEN k
     ELSE Bind(self("atom", k.pos), LAMBDA type :
             IF Failed(type) THEN type
             ELSE Bind(eat(type.pos, GROUP, "("), LAMBDA g :
                     IF Failed(g) THEN Fail(g, type.miss)
                     \* self.expr(with_kwargs=True): expr takes no keyword argument
                     ELSE Raise("TypeError", g.pos, type.miss))))

\* atom, line 397-402: the arrow-function suffix; statement_block() is
\* evaluated before names is read
atom_arrow(p, value, m) ==
  IF value.k = "Variable" \/ value.k = "TupleConstant"
  THEN Bind(self("statement_block", p), LAMBDA b :
          IF Failed(b) THEN Fail(b, m)
          ELSE IF value.k = "Variable"
               THEN Ok(b.pos, FunctionCreate(b.val, <<value.name>>, None, <<>>), m \/ b.miss)
               ELSE IF \A i \in 1..Len(value.arguments) : value.arguments[i].k = "Variable"
                    THEN Ok(b.pos, FunctionCreate(b.val, [i \in 1..Len(value.arguments) |-> value.arguments[i].name], None, <<>>), m \/ b.miss)
                    ELSE Raise("UnboundLocalError", b.pos, m \/ b.miss))
  \* value.arguments on a node that has none
  ELSE Raise("AttributeError", p, m)

\* atom, line 390-403: the branch for '('
atom_paren(p) ==
  Bind(eat(p, GROUP, NoValue), LAMBDA g :
     IF Failed(g) THEN g
     ELSE Bind(self("expr", g.pos), LAMBDA v :
             IF Failed(v) THEN v
             ELSE IF ~token_ok(v.pos) THEN Fail(token_raise(v.pos), v.miss)
             ELSE Bind(IF token(v.pos).type = COMMA
                           THEN Bind(eat(v.pos, COMMA, NoValue), LAMBDA c :
                                    Bind(expr_list(c.pos, FALSE), LAMBDA l :
                                   IF Failed(l) THEN Fail(l, v.miss)
                                   ELSE Ok(l.pos, TupleConstant(<<v.val>> \o l.val), v.miss \/ l.miss)))
                           ELSE v, LAMBDA t :
                     IF Failed(t) THEN t
                     ELSE Bind(eat(t.pos, GROUP, ")"), LAMBDA c :
                             IF Failed(c) THEN Fail(c, t.miss)
                             ELSE IF ~token_ok(c.pos) THEN Fail(token_raise(c.pos), t.miss)
                             ELSE IF token(c.pos).type = ARROW
                                  THEN atom_arrow(c.pos, t.val, t.miss)
                                  ELSE Ok(c.pos, t.val, t.miss)))))

\* atom, line 405-409: the branch for '['
atom_array(p) ==
  Bind(eat(p, GROUP, NoValue), LAMBDA g :
     IF Failed(g) THEN g
     ELSE Bind(expr_list(g.pos, FALSE), LAMBDA l :
             IF Failed(l) THEN l
             ELSE Bind(eat(l.pos, GROUP, "]"), LAMBDA c :
                     IF Failed(c) THEN Fail(c, l.miss)
                     ELSE Ok(c.pos, ArrayConstant(l.val), l.miss))))

\* atom, line 427-436: the loop over the further lines of a dictionary
atom_dict_loop(p, lines, m) ==
  IF ~token_ok(p) THEN Fail(token_raise(p), m)
  ELSE IF token(p).type # COMMA THEN Ok(p, DictionaryConstant(lines), m)
  ELSE Bind(eat(p, COMMA, NoValue), LAMBDA c :
           Bind(self("expr", c.pos), LAMBDA key :
          IF Failed(key) THEN Fail(key, m)
          ELSE IF key.val.k = "UnpackOperation"
               THEN atom_dict_loop(key.pos, Append(lines, <<key.val>>), m \/ key.miss)
               ELSE Bind(eat(key.pos, COLON, NoValue), LAMBDA n :
                       IF Failed(n) THEN Fail(n, m \/ key.miss)
                       ELSE Bind(self("expr", n.pos), LAMBDA value :
                               IF Failed(value) THEN Fail(value, m \/ key.miss)
                               ELSE atom_dict_loop(value.pos, Append(lines, <<key.val, value.val>>),
                                                   m \/ key.miss \/ value.miss)))))

\* atom, line 411-436: the branch for '{'
atom_dict(p) ==
  Bind(eat(p, GROUP, NoValue), LAMBDA g :
     IF Failed(g) THEN g
     ELSE Bind(self("expr", g.pos), LAMBDA key :
             IF Failed(key) THEN key
             ELSE IF key.val.k = "Variable" /\ ~token_ok(key.pos) THEN Fail(token_raise(key.pos), key.miss)
             ELSE IF key.val.k = "Variable" /\ token(key.pos).type = COMMA
                  THEN Bind(eat(key.pos, COMMA, NoValue), LAMBDA c :
                           Bind(self("name_list", c.pos), LAMBDA n :
                          IF Failed(n) THEN Fail(n, key.miss)
                          ELSE Bind(eat(n.pos, GROUP, "}"), LAMBDA e :
                                  IF Failed(e) THEN Fail(e, key.miss)
                                  ELSE Ok(e.pos, Destructuring(<<key.val.name>> \o n.val), key.miss))))
             \* self.token.key: a token has no attribute key
             ELSE IF key.val.k = "Variable" THEN Raise("AttributeError", key.pos, key.miss)
             ELSE Bind(eat(key.pos, COLON, NoValue), LAMBDA n :
                     IF Failed(n) THEN Fail(n, key.miss)
                     ELSE Bind(self("expr", n.pos), LAMBDA value :
                             IF Failed(value) THEN Fail(value, key.miss)
                             ELSE atom_dict_loop(value.pos, <<<<key.val, value.val>>>>, key.miss \/ value.miss)))))

atom(p) ==
  IF ~token_ok(p) THEN token_raise(p)
  ELSE IF ValueIs(token(p), "new") THEN atom_new(p)
  ELSE IF ValueIs(token(p), "null")
       THEN Bind(eat(p, KEYWORD, NoValue), LAMBDA k :
               IF Failed(k) THEN k
               ELSE Ok(k.pos, ConstructorCall(Variable("NoneType"), <<>>, None), FALSE))
  ELSE IF token(p).type = NUMBER
       \* type is a local of atom (assigned at line 367), unbound on this path
       THEN Bind(eat(p, NUMBER, NoValue), LAMBDA n :
               Raise("UnboundLocalError", n.pos, FALSE))
  ELSE IF token(p).type = NAME
       THEN Bind(eat(p, NAME, NoValue), LAMBDA n :
               Ok(n.pos, Variable(token(p).value), FALSE))
  ELSE IF token(p).type = STRING_
       THEN Bind(eat(p, STRING_, NoValue), LAMBDA n :
               Ok(n.pos, Constant(String(token(p).value)), FALSE))
  ELSE IF token(p).type = GROUP /\ token(p).value = "(" THEN atom_paren(p)
  ELSE IF token(p).type = GROUP /\ token(p).value = "[" THEN atom_array(p)
  ELSE IF token(p).type = GROUP /\ token(p).value = "{" THEN atom_dict(p)
  ELSE IF token(p).type = ELLIPSIS
       THEN Bind(self("expr", p), LAMBDA e :
               IF Failed(e) THEN e ELSE Ok(e.pos, UnpackOperation(e.val), e.miss))
  \* no atom at the cursor: line 441
  ELSE Ok(p, None, TRUE)

-----------------------------------------------------------------------------
(* expr_list and the levels from trailer_expr up to or_expr.               *)

\* the while loop of expr_list; sp is the cursor where start_symbol was read
expr_list_loop(p, with_kwargs, result_, kwarg_lines, sp, m) ==
  IF ~token_ok(p) THEN Fail(token_raise(p), m)
  ELSE IF token(p).type # COMMA
       THEN Ok(p, IF with_kwargs THEN <<result_, DictionaryConstant(kwarg_lines)>> ELSE result_, m)
  ELSE IF /\ with_kwargs
          /\ result_[Len(result_)].k = "Assignment"
          /\ result_[Len(result_)].object.k = "Variable"
          /\ ~ValueIs(token(sp), "(")
       \* kwarg_lines.append(a, b): list.append takes one argument
       THEN Raise("TypeError", p, m)
  ELSE Bind(eat(p, COMMA, NoValue), LAMBDA c :
          IF ~token_ok(c.pos) THEN Fail(token_raise(c.pos), m)
          ELSE Bind(self("expr", c.pos), LAMBDA e :
                  IF Failed(e) THEN Fail(e, m)
                  ELSE expr_list_loop(e.pos, with_kwargs, Append(result_, e.val), kwarg_lines, c.pos, m \/ e.miss)))

expr_list(p, with_kwargs) ==
  IF ~token_ok(p) THEN token_raise(p)
  ELSE Bind(self("expr", p), LAMBDA e :
          IF Failed(e) THEN e
          ELSE IF e.val.k = "None" THEN Ok(e.pos, <<>>, e.miss)
          ELSE expr_list_loop(e.pos, with_kwargs, <<e.val>>, <<>>, p, e.miss))

\* trailer_expr, line 347-354: a call
trailer_call(p, value, m) ==
  Bind(eat(p, GROUP, NoValue), LAMBDA g :
     IF Failed(g) THEN Fail(g, m)
     ELSE Bind(expr_list(g.pos, TRUE), LAMBDA l :
             IF Failed(l) THEN Fail(l, m)
             \* args, kwargs = []
             ELSE IF Len(l.val) # 2 THEN Raise("ValueError", l.pos, m \/ l.miss)
             ELSE Bind(eat(l.pos, GROUP, ")"), LAMBDA c :
                     IF Failed(c) THEN Fail(c, m \/ l.miss)
                     ELSE Ok(c.pos,
                             IF value.k = "MemberAccess"
                             THEN MemberCall(value.object, value.name, l.val[1], l.val[2])
                             ELSE FunctionCall(value, l.val[1], l.val[2]),
                             m \/ l.miss))))

\* trailer_expr, line 355-359: an index access
trailer_item(p, value, m) ==
  Bind(eat(p, GROUP, NoValue), LAMBDA g :
     IF Failed(g) THEN Fail(g, m)
     ELSE Bind(expr_list(g.pos, FALSE), LAMBDA l :
             IF Failed(l) THEN Fail(l, m)
             ELSE Bind(eat(l.pos, GROUP, "]"), LAMBDA c :
                     IF Failed(c) THEN Fail(c, m \/ l.miss)
                     ELSE Ok(c.pos, ItemAccess(value, l.val), m \/ l.miss))))

\* trailer_expr, line 342-346: a member access returns from the method
trailer_member(p, value, m) ==
  Bind(eat(p, DOT, NoValue), LAMBDA d :
     IF ~token_ok(d.pos) THEN Fail(token_raise(d.pos), m)
     ELSE Bind(eat(d.pos, NAME, NoValue), LAMBDA n :
             IF Failed(n) THEN Fail(n, m)
             ELSE Ok(n.pos, MemberAccess(value, token(d.pos).value), m)))

trailer_expr_loop(p, value, m) ==
  IF ~token_ok(p) THEN Fail(token_raise(p), m)
  ELSE IF ~(ValueIn(token(p), {"(", "["}) \/ token(p).type = DOT) THEN Ok(p, value, m)
  ELSE IF token(p).type = DOT THEN trailer_member(p, value, m)
  ELSE Bind(IF ValueIs(token(p), "(") THEN trailer_call(p, value, m) ELSE Ok(p, value, m), LAMBDA c :
          IF Failed(c) THEN c
          ELSE IF ~token_ok(c.pos) THEN Fail(token_raise(c.pos), c.miss)
          ELSE Bind(IF ValueIs(token(c.pos), "[") THEN trailer_item(c.pos, c.val, c.miss) ELSE c, LAMBDA i :
                  IF Failed(i) THEN i ELSE trailer_expr_loop(i.pos, i.val, i.miss)))

trailer_expr(p) ==
  Bind(self("atom", p), LAMBDA value :
     IF Failed(value) THEN value ELSE trailer_expr_loop(value.pos, value.val, value.miss))

RECURSIVE power_expr_loop(_, _, _)
power_expr_loop(p, value, m) ==
  IF ~token_ok(p) THEN Fail(token_raise(p), m)
  ELSE IF ~ValueIs(token(p), "^") THEN Ok(p, value, m)
  ELSE Bind(eat(p, OPERATOR, NoValue), LAMBDA o :
          IF Failed(o) THEN Fail(o, m)
          ELSE Bind(self("trailer_expr", o.pos), LAMBDA r :
                  IF Failed(r) THEN Fail(r, m)
                  ELSE power_expr_loop(r.pos, OperatorCall("#exponent", <<value, r.val>>), m \/ r.miss)))

power_expr(p) ==
  Bind(self("trailer_expr", p), LAMBDA value :
     IF Failed(value) THEN value ELSE power_expr_loop(value.pos, value.val, value.miss))

RECURSIVE factor_expr_loop(_, _, _)
factor_expr_loop(p, value, m) ==
  IF ~token_ok(p) THEN Fail(token_raise(p), m)
  ELSE IF ~ValueIn(token(p), {"*", "/", "%"}) THEN Ok(p, value, m)
  ELSE Bind(eat(p, OPERATOR, NoValue), LAMBDA o :
          IF Failed(o) THEN Fail(o, m)
          ELSE Bind(self("power_expr", o.pos), LAMBDA r :
                  IF Failed(r) THEN Fail(r, m)
                  ELSE factor_expr_loop(r.pos, OperatorCall(operator_names[token(p).value], <<value, r.val>>), m \/ r.miss)))

factor_expr(p) ==
  Bind(self("power_expr", p), LAMBDA value :
     IF Failed(value) THEN value ELSE factor_expr_loop(value.pos, value.val, value.miss))

RECURSIVE term_expr_loop(_, _, _)
term_expr_loop(p, value, m) ==
  IF ~token_ok(p) THEN Fail(token_raise(p), m)
  ELSE IF ~ValueIn(token(p), {"+", "-"}) THEN Ok(p, value, m)
  ELSE Bind(eat(p, OPERATOR, NoValue), LAMBDA o :
          IF Failed(o) THEN Fail(o, m)
          ELSE Bind(self("factor_expr", o.pos), LAMBDA r :
                  IF Failed(r) THEN Fail(r, m)
                  ELSE term_expr_loop(r.pos, OperatorCall(operator_names[token(p).value], <<value, r.val>>), m \/ r.miss)))

term_expr(p) ==
  Bind(self("factor_expr", p), LAMBDA value :
     IF Failed(value) THEN value ELSE term_expr_loop(value.pos, value.val, value.miss))

RECURSIVE comparation_expr_loop(_, _, _, _)
\* the while loop at line 289-294
comparation_expr_loop(p, value, last_operand, m) ==
  IF ~token_ok(p) THEN Fail(token_raise(p), m)
  ELSE IF ~ValueIn(token(p), comparation_operators) THEN Ok(p, value, m)
  ELSE Bind(eat(p, OPERATOR, NoValue), LAMBDA o :
          IF Failed(o) THEN Fail(o, m)
          ELSE Bind(self("term_expr", o.pos), LAMBDA r :
                  IF Failed(r) THEN Fail(r, m)
                  ELSE comparation_expr_loop(r.pos,
                         AndOperation(value, OperatorCall(operator_names[token(p).value], <<last_operand, r.val>>)),
                         r.val, m \/ r.miss)))

comparation_expr(p) ==
  Bind(self("term_expr", p), LAMBDA value :
     IF Failed(value) THEN value
     ELSE IF ~token_ok(value.pos) THEN Fail(token_raise(value.pos), value.miss)
     ELSE IF ~ValueIn(token(value.pos), comparation_operators) THEN value
     ELSE Bind(eat(value.pos, OPERATOR, NoValue), LAMBDA o :
             IF Failed(o) THEN Fail(o, value.miss)
             ELSE Bind(self("term_expr", o.pos), LAMBDA last_operand :
                     IF Failed(last_operand) THEN Fail(last_operand, value.miss)
                     ELSE comparation_expr_loop(last_operand.pos,
                            OperatorCall(operator_names[token(value.pos).value], <<value.val, last_operand.val>>),
                            last_operand.val, value.miss \/ last_operand.miss))))

in_expr(p) ==
  Bind(self("comparation_expr", p), LAMBDA value :
     IF Failed(value) THEN value
     ELSE IF ~token_ok(value.pos) THEN Fail(token_raise(value.pos), value.miss)
     ELSE IF ~ValueIs(token(value.pos), "in") THEN value
     ELSE Bind(eat(value.pos, OPERATOR, NoValue), LAMBDA o :
             IF Failed(o) THEN Fail(o, value.miss)
             ELSE Bind(self("expr", o.pos), LAMBDA e :
                     IF Failed(e) THEN Fail(e, value.miss)
                     ELSE Ok(e.pos, ContainsOperation(value.val, e.val), value.miss \/ e.miss))))

not_expr(p) ==
  IF ~token_ok(p) THEN token_raise(p)
  ELSE IF ~ValueIs(token(p), "not") THEN self("in_expr", p)
  ELSE Bind(eat(p, OPERATOR, NoValue), LAMBDA o :
          IF Failed(o) THEN o
          ELSE Bind(self("not_expr", o.pos), LAMBDA r :
                  IF Failed(r) THEN r ELSE Ok(r.pos, NotOperation(r.val), r.miss)))

RECURSIVE and_expr_loop(_, _, _)
and_expr_loop(p, value, m) ==
  IF ~token_ok(p) THEN Fail(token_raise(p), m)
  ELSE IF ~ValueIs(token(p), "and") THEN Ok(p, value, m)
  ELSE Bind(eat(p, OPERATOR, NoValue), LAMBDA o :
          IF Failed(o) THEN Fail(o, m)
          ELSE Bind(self("not_expr", o.pos), LAMBDA r :
                  IF Failed(r) THEN Fail(r, m)
                  ELSE and_expr_loop(r.pos, AndOperation(value, r.val), m \/ r.miss)))

and_expr(p) ==
  Bind(self("not_expr", p), LAMBDA value :
     IF Failed(value) THEN value ELSE and_expr_loop(value.pos, value.val, value.miss))

RECURSIVE or_expr_loop(_, _, _)
or_expr_loop(p, value, m) ==
  IF ~token_ok(p) THEN Fail(token_raise(p), m)
  ELSE IF ~ValueIs(token(p), "or") THEN Ok(p, value, m)
  ELSE Bind(eat(p, OPERATOR, NoValue), LAMBDA o :
          IF Failed(o) THEN Fail(o, m)
          ELSE Bind(self("and_expr", o.pos), LAMBDA r :
                  IF Failed(r) THEN Fail(r, m)
                  ELSE or_expr_loop(r.pos, OrOperation(value, r.val), m \/ r.miss)))

or_expr(p) ==
  Bind(self("and_expr", p), LAMBDA value :
     IF Failed(value) THEN value ELSE or_expr_loop(value.pos, value.val, value.miss))

-----------------------------------------------------------------------------
(* conditional_expr up to expr: the definitions and assignment.           *)

\* line 246: condition = self.logic_expr(); nothing after it is reached
conditional_expr(p) == self("logic_expr", p)

list_comp_expr(p) ==
  Bind(self("conditional_expr", p), LAMBDA operation :
     IF Failed(operation) THEN operation
     ELSE IF ~token_ok(operation.pos) THEN Fail(token_raise(operation.pos), operation.miss)
     ELSE IF token(operation.pos).type # SEPARATOR THEN operation
     ELSE Bind(eat(operation.pos, KEYWORD, NoValue), LAMBDA k :
             IF Failed(k) THEN Fail(k, operation.miss)
             ELSE Bind(self("name_list", k.pos), LAMBDA iter_vars :
                     IF Failed(iter_vars) THEN Fail(iter_vars, operation.miss)
                     ELSE Bind(eat(iter_vars.pos, KEYWORD, "in"), LAMBDA i :
                             IF Failed(i) THEN Fail(i, operation.miss)
                             ELSE Bind(self("expr", i.pos), LAMBDA iterable :
                                     IF Failed(iterable) THEN Fail(iterable, operation.miss)
                                     ELSE IF ~token_ok(iterable.pos)
                                          THEN Fail(token_raise(iterable.pos), operation.miss \/ iterable.miss)
                                     ELSE Bind(IF token(iterable.pos).type = COMMA
                                                            THEN expr_list(iterable.pos, FALSE)
                                                            ELSE Ok(iterable.pos, <<>>, FALSE), LAMBDA conditions :
                                             IF Failed(conditions) THEN Fail(conditions, operation.miss \/ iterable.miss)
                                             ELSE Ok(conditions.pos,
                                                     ListComprehension(operation.val, iter_vars.val, iterable.val, conditions.val),
                                                     operation.miss \/ iterable.miss \/ conditions.miss)))))))

assignment(p) ==
  Bind(self("list_comp_expr", p), LAMBDA var :
     IF Failed(var) THEN var
     ELSE IF ~token_ok(var.pos) THEN Fail(token_raise(var.pos), var.miss)
     ELSE IF ~(ValueIs(token(var.pos), "=") /\ IAssignable(var.val)) THEN var
     ELSE Bind(eat(var.pos, ASSIGNMENT, NoValue), LAMBDA a :
             IF Failed(a) THEN Fail(a, var.miss)
             ELSE Bind(self("assignment", a.pos), LAMBDA e :
                     IF Failed(e) THEN Fail(e, var.miss)
                     ELSE Ok(e.pos, Assignment(var.val, e.val), var.miss \/ e.miss))))

\* the while loop at line 207-217; returns the three parameter fields
function_definition_loop(p, names, default_args, m) ==
  IF ~token_ok(p) THEN Fail(token_raise(p), m)
  ELSE IF token(p).type # COMMA
       THEN Ok(p, [names |-> names, var_arg_name |-> None, default_args |-> default_args], m)
  ELSE Bind(eat(p, COMMA, NoValue), LAMBDA c :
          IF ~token_ok(c.pos) THEN Fail(token_raise(c.pos), m)
          ELSE IF token(c.pos).type = ELLIPSIS
               THEN Bind(eat(c.pos, ELLIPSIS, NoValue), LAMBDA e :
                        Bind(eat(e.pos, NAME, NoValue), LAMBDA v :
                       IF Failed(v) THEN Fail(v, m)
                       ELSE Ok(v.pos, [names |-> names, var_arg_name |-> v.val, default_args |-> default_args], m)))
               ELSE Bind(eat(c.pos, NAME, NoValue), LAMBDA n :
                       IF Failed(n) THEN Fail(n, m)
                       ELSE IF ~token_ok(n.pos) THEN Fail(token_raise(n.pos), m)
                       ELSE IF ~ValueIs(token(n.pos), "=")
                            THEN function_definition_loop(n.pos, Append(names, n.val), default_args, m)
                       ELSE Bind(eat(n.pos, ASSIGNMENT, NoValue), LAMBDA a :
                               IF Failed(a) THEN Fail(a, m)
                               ELSE Bind(self("expr", a.pos), LAMBDA d :
                                       IF Failed(d) THEN Fail(d, m)
                                       ELSE function_definition_loop(d.pos, Append(names, n.val),
                                                                     Append(default_args, d.val), m \/ d.miss)))))

\* line 202-217: the parameter list
function_params(p) ==
  IF ~token_ok(p) THEN token_raise(p)
  ELSE IF token(p).type = ELLIPSIS
       \* the ELLIPSIS token is still at the cursor when NAME is eaten
       THEN Bind(eat(p, NAME, NoValue), LAMBDA v :
               IF Failed(v) THEN v
               ELSE Ok(v.pos, [names |-> <<>>, var_arg_name |-> v.val, default_args |-> <<>>], FALSE))
       ELSE Bind(eat(p, NAME, NoValue), LAMBDA n :
               IF Failed(n) THEN n ELSE function_definition_loop(n.pos, <<n.val>>, <<>>, FALSE))

function_definition(p) ==
  IF ~token_ok(p) THEN token_raise(p)
  \* line 221
  ELSE IF ~ValueIs(token(p), "function") THEN self("assignment_expr", p)
  ELSE Bind(eat(p, KEYWORD, NoValue), LAMBDA k :
          IF Failed(k) THEN k
          ELSE Bind(eat(k.pos, NAME, NoValue), LAMBDA name :
                  IF Failed(name) THEN name
                  ELSE Bind(eat(name.pos, GROUP, "("), LAMBDA g :
                          IF Failed(g) THEN g
                          ELSE Bind(function_params(g.pos), LAMBDA a :
                                  IF Failed(a) THEN a
                                  ELSE Bind(eat(a.pos, GROUP, ")"), LAMBDA c :
                                          IF Failed(c) THEN Fail(c, a.miss)
                                          ELSE Bind(self("statement_block", c.pos), LAMBDA body :
                                                  IF Failed(body) THEN Fail(body, a.miss)
                                                  ELSE Ok(body.pos,
                                                          Assignment(Variable(name.val),
                                                            FunctionCreate(body.val, a.val.names, a.val.var_arg_name,
                                                                           Reverse(a.val.default_args))),
                                                          a.miss \/ body.miss)))))))

\* dict[key] = value
DictSet(d, key, value) == (key :> value) @@ d

\* the while loop at line 181-191
class_definition_loop(p, methods, statics, m) ==
  IF ~token_ok(p) THEN Fail(token_raise(p), m)
  ELSE IF ValueIs(token(p), "}") \/ token(p).type = EOF
       THEN Ok(p, [methods |-> methods, statics |-> statics], m)
  ELSE IF ValueIs(token(p), "static")
       THEN Bind(eat(p, KEYWORD, NoValue), LAMBDA k :
               IF Failed(k) THEN Fail(k, m)
               ELSE Bind(self("function_definition", k.pos), LAMBDA definition :
                       IF Failed(definition) THEN Fail(definition, m)
                       ELSE class_definition_loop(definition.pos, methods,
                              DictSet(statics, definition.val.object.name, definition.val.value),
                              m \/ definition.miss)))
  ELSE IF ValueIs(token(p), "function")
       THEN Bind(self("function_definition", p), LAMBDA definition :
               IF Failed(definition) THEN Fail(definition, m)
               ELSE class_definition_loop(definition.pos,
                      DictSet(methods, definition.val.object.name, definition.val.value), statics,
                      m \/ definition.miss))
  ELSE Bind(self("assignment", p), LAMBDA a :
          IF Failed(a) THEN Fail(a, m)
          ELSE IF a.val.k # "Assignment" \/ a.val.object.k \notin {"Variable", "MemberAccess"}
               THEN Raise("AttributeError", a.pos, m \/ a.miss)
               ELSE class_definition_loop(a.pos, methods,
                      DictSet(statics, a.val.object.name, a.val.value), m \/ a.miss))

class_definition(p) ==
  IF ~token_ok(p) THEN token_raise(p)
  ELSE IF ~ValueIs(token(p), "class") THEN self("function_definition", p)
  ELSE Bind(eat(p, KEYWORD, NoValue), LAMBDA k :
          IF Failed(k) THEN k
          ELSE Bind(eat(k.pos, NAME, NoValue), LAMBDA name :
                  IF Failed(name) THEN name
                  ELSE IF ~token_ok(name.pos) THEN token_raise(name.pos)
                  ELSE Bind(IF ValueIs(token(name.pos), "extends")
                             \* line 174 passes the string "KEYWORD", not TokenType.KEYWORD
                             THEN Bind(eat(name.pos, "KEYWORD", NoValue), LAMBDA x :
                                     IF Failed(x) THEN x ELSE eat(x.pos, NAME, NoValue))
                             ELSE Ok(name.pos, None, FALSE), LAMBDA parent_name :
                          IF Failed(parent_name) THEN parent_name
                          ELSE Bind(eat(parent_name.pos, GROUP, "{"), LAMBDA g :
                                  IF Failed(g) THEN g
                                  ELSE Bind(class_definition_loop(g.pos, <<>>, <<>>, FALSE), LAMBDA b :
                                          IF Failed(b) THEN b
                                          ELSE Ok(b.pos,
                                                  Assignment(Variable(name.val),
                                                    ClassCreate(name.val, b.val.methods, b.val.statics, parent_name.val)),
                                                  b.miss))))))

expr(p) == self("class_definition", p)

-----------------------------------------------------------------------------
(* Statements.                                                             *)

expr_statement(p) ==
  Bind(self("expr", p), LAMBDA e :
     IF Failed(e) THEN e
     ELSE Bind(eat(e.pos, SEMICOLON, NoValue), LAMBDA s :
             IF Failed(s) THEN Fail(s, e.miss) ELSE Ok(s.pos, ExprStatement(e.val), e.miss)))

\* line 131-142
flow_if(p) ==
  Bind(eat(p, KEYWORD, NoValue), LAMBDA k :
      Bind(eat(k.pos, GROUP, "("), LAMBDA g :
     IF Failed(g) THEN g
     ELSE Bind(self("expr", g.pos), LAMBDA condition :
             IF Failed(condition) THEN condition
             ELSE Bind(eat(condition.pos, GROUP, ")"), LAMBDA c :
                     IF Failed(c) THEN Fail(c, condition.miss)
                     ELSE Bind(self("statement_block", c.pos), LAMBDA body :
                             IF Failed(body) THEN Fail(body, condition.miss)
                             ELSE IF ~token_ok(body.pos) THEN Fail(token_raise(body.pos), condition.miss \/ body.miss)
                             ELSE IF ~ValueIs(token(body.pos), "else")
                                  THEN Ok(body.pos, ConditionalStatement(condition.val, body.val, None),
                                          condition.miss \/ body.miss)
                             ELSE Bind(eat(body.pos, KEYWORD, NoValue), LAMBDA e :
                                     IF Failed(e) THEN Fail(e, condition.miss \/ body.miss)
                                     ELSE Bind(self("statement_block", e.pos), LAMBDA else_body :
                                             IF Failed(else_body) THEN Fail(else_body, condition.miss \/ body.miss)
                                             ELSE Ok(else_body.pos,
                                                     ConditionalStatement(condition.val, body.val, else_body.val),
                                                     condition.miss \/ body.miss \/ else_body.miss))))))))

\* line 143-149
flow_while(p) ==
  Bind(eat(p, KEYWORD, NoValue), LAMBDA k :
      Bind(eat(k.pos, GROUP, "("), LAMBDA g :
     IF Failed(g) THEN g
     ELSE Bind(self("expr", g.pos), LAMBDA condition :
             IF Failed(condition) THEN condition
             ELSE Bind(eat(condition.pos, GROUP, ")"), LAMBDA c :
                     IF Failed(c) THEN Fail(c, condition.miss)
                     ELSE Bind(self("statement_block", c.pos), LAMBDA body :
                             IF Failed(body) THEN Fail(body, condition.miss)
                             ELSE Ok(body.pos, WhileStatement(condition.val, body.val),
                                     condition.miss \/ body.miss))))))

\* line 150-158
flow_for(p) ==
  Bind(eat(p, KEYWORD, NoValue), LAMBDA k :
      Bind(eat(k.pos, GROUP, "("), LAMBDA g :
     IF Failed(g) THEN g
     ELSE Bind(self("name_list", g.pos), LAMBDA names :
             IF Failed(names) THEN names
             ELSE Bind(eat(names.pos, KEYWORD, "in"), LAMBDA i :
                     IF Failed(i) THEN i
                     ELSE Bind(self("expr", i.pos), LAMBDA iterable :
                             IF Failed(iterable) THEN iterable
                             ELSE Bind(eat(iterable.pos, GROUP, ")"), LAMBDA c :
                                     IF Failed(c) THEN Fail(c, iterable.miss)
                                     ELSE Bind(self("statement_block", c.pos), LAMBDA body :
                                             IF Failed(body) THEN Fail(body, iterable.miss)
                                             ELSE Ok(body.pos, ForStatement(names.val, iterable.val, body.val),
                                                     iterable.miss \/ body.miss))))))))

flow_statement(p) ==
  IF ~token_ok(p) THEN token_raise(p)
  ELSE IF token(p).type = KEYWORD /\ token(p).value = "if" THEN flow_if(p)
  ELSE IF token(p).type = KEYWORD /\ token(p).value = "while" THEN flow_while(p)
  ELSE IF token(p).type = KEYWORD /\ token(p).value = "for" THEN flow_for(p)
  ELSE self("expr_statement", p)

\* line 112-119: break and continue
special_keyword(p, node) ==
  Bind(eat(p, KEYWORD, NoValue), LAMBDA k :
     IF Failed(k) THEN k
     ELSE Bind(eat(k.pos, SEMICOLON, NoValue), LAMBDA s :
             IF Failed(s) THEN s ELSE Ok(s.pos, node, FALSE)))

special_statement(p) ==
  IF ~token_ok(p) THEN token_raise(p)
  ELSE IF ValueIs(token(p), "return")
       THEN Bind(self("expr_statement", p), LAMBDA e :
               IF Failed(e) THEN e ELSE Ok(e.pos, ReturnStatement(e.val), e.miss))
  ELSE IF ValueIs(token(p), "raise")
       THEN Bind(self("expr_statement", p), LAMBDA e :
               IF Failed(e) THEN e ELSE Ok(e.pos, RaiseStatement(e.val), e.miss))
  ELSE IF ValueIs(token(p), "break") THEN special_keyword(p, BreakStatement)
  ELSE IF ValueIs(token(p), "continue") THEN special_keyword(p, ContinueStatement)
  ELSE self("flow_statement", p)

statement(p) == self("special_statement", p)

\* the while loop at line 96-101
statement_list_loop(p, result_, m) ==
  IF ~token_ok(p) THEN Fail(token_raise(p), m)
  ELSE IF ValueIs(token(p), "}") \/ token(p).type = EOF THEN Ok(p, StatementList(result_), m)
  ELSE Bind(prev_token(p), LAMBDA v :
          IF Failed(v) THEN Fail(v, m)
          ELSE Bind(IF ~ValueIs(v.val, "}") THEN eat(p, SEMICOLON, NoValue) ELSE Ok(p, None, FALSE), LAMBDA e :
                  IF Failed(e) THEN Fail(e, m)
                  ELSE Bind(self("statement", e.pos), LAMBDA s :
                          IF Failed(s) THEN Fail(s, m)
                          ELSE statement_list_loop(s.pos,
                                 IF s.val.k # "None" THEN Append(result_, s.val) ELSE result_,
                                 m \/ s.miss))))

statement_list(p) ==
  Bind(self("statement", p), LAMBDA s :
     IF Failed(s) THEN s
     ELSE statement_list_loop(s.pos, IF s.val.k # "None" THEN <<s.val>> ELSE <<>>, s.miss))

statement_block(p) ==
  IF ~token_ok(p) THEN token_raise(p)
  ELSE IF ~ValueIs(token(p), "{") THEN self("statement", p)
  ELSE Bind(eat(p, GROUP, NoValue), LAMBDA g :
          IF Failed(g) THEN g
          ELSE Bind(self("statement_list", g.pos), LAMBDA r :
                  IF Failed(r) THEN r
                  ELSE Bind(eat(r.pos, GROUP, "}"), LAMBDA c :
                          IF Failed(c) THEN Fail(c, r.miss) ELSE Ok(c.pos, r.val, r.miss))))

------------------------------------------------------------------------\* self.<method>(): the attribute is looked up on the Parser object when the
\* call is made; logic_expr and assignment_expr are not attributes of it
self(attr, p) ==
  CASE attr = "statement_block" -> statement_block(p)
    [] attr = "statement_list" -> statement_list(p)
    [] attr = "statement" -> statement(p)
    [] attr = "special_statement" -> special_statement(p)
    [] attr = "name_list" -> name_list(p)
    [] attr = "flow_statement" -> flow_statement(p)
    [] attr = "expr_statement" -> expr_statement(p)
    [] attr = "expr" -> expr(p)
    [] attr = "class_definition" -> class_definition(p)
    [] attr = "function_definition" -> function_definition(p)
    [] attr = "assignment" -> assignment(p)
    [] attr = "list_comp_expr" -> list_comp_expr(p)
    [] attr = "conditional_expr" -> conditional_expr(p)
    [] attr = "or_expr" -> or_expr(p)
    [] attr = "and_expr" -> and_expr(p)
    [] attr = "not_expr" -> not_expr(p)
    [] attr = "in_expr" -> in_expr(p)
    [] attr = "comparation_expr" -> comparation_expr(p)
    [] attr = "term_expr" -> term_expr(p)
    [] attr = "factor_expr" -> factor_expr(p)
    [] attr = "power_expr" -> power_expr(p)
    [] attr = "trailer_expr" -> trailer_expr(p)
    [] attr = "atom" -> atom(p)
    [] OTHER -> Raise("AttributeError", p, FALSE)

-----
(* Token streams the parser is run on.                                     *)

MaxOps == 2
MaxTrailers == 2
MaxStatements == 2
MaxParams == 3
MaxAny == 2

Name(n) == Tok(NAME, n)
Num(n) == Tok(NUMBER, PyNum("int", n, 1))
Op(o) == Tok(OPERATOR, o)
Kw(w) == Tok(KEYWORD, w)
Grp(g) == Tok(GROUP, g)
Semi == Tok(SEMICOLON, ";")
Comma == Tok(COMMA, ",")
Assign == Tok(ASSIGNMENT, "=")
Ellipsis == Tok(ELLIPSIS, "...")
Dot == Tok(DOT, ".")
Eof == Tok(EOF, None)

Cat(S, T) == {s \o t : s \in S, t \in T}

RECURSIVE Rep(_, _)
\* up to n elements of S, concatenated
Rep(S, n) == IF n = 0 THEN {<<>>} ELSE {<<>>} \cup Cat(S, Rep(S, n - 1))

BinaryOperators == {"==", "!=", "<", "<=", ">", ">=", "in", "+", "-", "*", "/", "%", "^"}

Operands == {<<Name("a")>>, <<Num(2)>>, <<Num(3)>>}

\* operand (operator operand)*
OperatorStreams == Cat(Operands, Rep(Cat({<<Op(o)>> : o \in BinaryOperators}, Operands), MaxOps))

\* function g ( x ) break ;   -- the one expression expr() accepts
FunctionG == <<Kw("function"), Name("g"), Grp("("), Name("x"), Grp(")"), Kw("break"), Semi>>

Trailers ==
  { <<Dot, Name("b")>>, <<Dot, Name("c")>>,
    <<Grp("(")>> \o FunctionG \o <<Grp(")")>>,
    <<Grp("[")>> \o FunctionG \o <<Grp("]")>>,
    <<Grp("("), Name("x"), Grp(")")>>,
    <<Grp("("), Grp(")")>> }

\* atom trailer*
TrailerStreams == Cat({<<Name("a")>>}, Rep(Trailers, MaxTrailers))

Statements ==
  { <<Kw("break")>>, <<Kw("continue")>>, <<Kw("break"), Semi>>, <<Kw("continue"), Semi>>,
    <<Kw("function"), Name("f"), Grp("("), Name("a"), Grp(")"), Grp("{"), Kw("break"), Semi, Grp("}")>>,
    <<Name("a")>> }

Separators == {<<>>, <<Semi>>, <<Semi, Semi>>}

\* statement (separator statement)* separator
StatementStreams ==
  Cat(Cat(Statements, Rep(Cat(Separators, Statements), MaxStatements - 1)), {<<>>, <<Semi>>})

Params ==
  { <<Name("a")>>, <<Name("b"), Assign>> \o FunctionG, <<Name("c"), Assign, Num(2)>>,
    <<Ellipsis, Name("r")>> }

RECURSIVE ParamLists(_)
\* up to n parameters, comma separated
ParamLists(n) ==
  IF n = 0 THEN {<<>>}
  ELSE ParamLists(n - 1) \cup Params
         \cup {l \o <<Comma>> \o q : l \in ParamLists(n - 1) \ {<<>>}, q \in Params}

\* function f ( params ) break ;
FunctionStreams ==
  Cat(Cat({<<Kw("function"), Name("f"), Grp("(")>>}, ParamLists(MaxParams)),
      {<<Grp(")"), Kw("break"), Semi>>})

ClassStreams ==
  Cat(Cat({<<Kw("class"), Name("A")>>}, {<<>>, <<Kw("extends"), Name("B")>>}),
      Cat({<<Grp("{")>>},
          Cat(Rep({ <<Kw("function"), Name("m"), Grp("("), Name("a"), Grp(")"), Kw("break"), Semi>>,
                    <<Kw("static")>> \o FunctionG,
                    <<Name("x"), Assign, Num(2)>> }, 2),
              {<<Grp("}")>>, <<Grp("}"), Semi>>})))

Alphabet ==
  { Name("a"), Num(2), Tok(STRING_, "s"), Op("+"), Op("^"), Op("<"), Op("in"), Op("not"), Op("and"), Op("or"),
    Kw("new"), Kw("null"), Kw("break"), Kw("return"), Kw("if"), Kw("for"), Kw("in"), Kw("else"),
    Grp("("), Grp(")"), Grp("["), Grp("]"), Grp("{"), Grp("}"),
    Semi, Comma, Assign, Ellipsis, Dot, Tok(COLON, ":"), Tok(QUESTION, "?"), Tok(ARROW, "=>"),
    Tok(SEPARATOR, "|") }

\* every sequence of at most MaxAny tokens
AnyStreams == Rep({<<t>> : t \in Alphabet}, MaxAny)

\* a in <function definition>
ContainsStreams == {<<Name("a"), Op("in")>> \o FunctionG}

Streams ==
  Cat(OperatorStreams \cup TrailerStreams \cup StatementStreams \cup FunctionStreams
        \cup ClassStreams \cup ContainsStreams \cup AnyStreams,
      {<<Eof>>})

TokenTypes ==
  { NAME, NUMBER, STRING_, OPERATOR, KEYWORD, GROUP, COMMA, COLON, QUESTION, ELLIPSIS, ARROW,
    ASSIGNMENT, SEMICOLON, DOT, SEPARATOR, EOF }

-----------------------------------------------------------------------------
(* The parser as a state machine: Parser(text) builds the object, eat      *)
(* moves the cursor, and one call of a production or of a cursor read      *)
(* ends the run, returning or raising.                                     *)

Init ==
  /\ tokens \in Streams
  /\ pos = 0
  /\ status = "ready"
  /\ op = "__init__"
  /\ result = Ok(0, None, FALSE)
  /\ this = None /\ other = None /\ method = "" /\ boxed = None

\* a call that ends the run
Call(name, r) ==
  /\ status = "ready"
  /\ op' = name
  /\ result' = r
  /\ pos' = r.pos
  /\ status' = IF Failed(r) THEN "raised" ELSE "returned"
  /\ UNCHANGED <<tokens, this, other, method, boxed>>

Eat ==
  /\ status = "ready"
  /\ \E type \in TokenTypes, value \in {NoValue, "(", "in", "}"} :
       LET r == eat(pos, type, value)
       IN /\ op' = "eat"
          /\ result' = r
          /\ pos' = r.pos
          /\ status' = IF Failed(r) THEN "raised" ELSE "ready"
  /\ UNCHANGED <<tokens, this, other, method, boxed>>

FindNext == \E type \in TokenTypes : Call("find_next", find_next(pos, type))
\* a read of self.token
Token == Call("token", IF token_ok(pos) THEN Ok(pos, token(pos), FALSE) ELSE token_raise(pos))
NextToken == Call("next_token", next_token(pos))
PrevToken == Call("prev_token", prev_token(pos))
StatementBlock == Call("statement_block", self("statement_block", pos))
StatementListCall == Call("statement_list", self("statement_list", pos))
Statement == Call("statement", self("statement", pos))
SpecialStatement == Call("special_statement", self("special_statement", pos))
NameList == Call("name_list", self("name_list", pos))
FlowStatement == Call("flow_statement", self("flow_statement", pos))
ExprStatementCall == Call("expr_statement", self("expr_statement", pos))
Expr == Call("expr", self("expr", pos))
ClassDefinition == Call("class_definition", self("class_definition", pos))
FunctionDefinition == Call("function_definition", self("function_definition", pos))
AssignmentCall == Call("assignment", self("assignment", pos))
ListCompExpr == Call("list_comp_expr", self("list_comp_expr", pos))
ConditionalExpr == Call("conditional_expr", self("conditional_expr", pos))
OrExpr == Call("or_expr", self("or_expr", pos))
AndExpr == Call("and_expr", self("and_expr", pos))
NotExpr == Call("not_expr", self("not_expr", pos))
InExpr == Call("in_expr", self("in_expr", pos))
ComparationExpr == Call("comparation_expr", self("comparation_expr", pos))
TermExpr == Call("term_expr", self("term_expr", pos))
FactorExpr == Call("factor_expr", self("factor_expr", pos))
PowerExpr == Call("power_expr", self("power_expr", pos))
ExprList == \E with_kwargs \in BOOLEAN : Call("expr_list", expr_list(pos, with_kwargs))
TrailerExpr == Call("trailer_expr", self("trailer_expr", pos))
Atom == Call("atom", self("atom", pos))

Next ==
  \/ Eat
  \/ FindNext
  \/ Token
  \/ NextToken
  \/ PrevToken
  \/ StatementBlock
  \/ StatementListCall
  \/ Statement
  \/ SpecialStatement
  \/ NameList
  \/ FlowStatement
  \/ ExprStatementCall
  \/ Expr
  \/ ClassDefinition
  \/ FunctionDefinition
  \/ AssignmentCall
  \/ ListCompExpr
  \/ ConditionalExpr
  \/ OrExpr
  \/ AndExpr
  \/ NotExpr
  \/ InExpr
  \/ ComparationExpr
  \/ TermExpr
  \/ FactorExpr
  \/ PowerExpr
  \/ ExprList
  \/ TrailerExpr
  \/ Atom

Spec == Init /\ [][Next]_vars

-----------------------------------------------------------------------------
(* Python numbers.  A number is PyNum(t, n, d): its type t and the value   *)
(* n/d in lowest terms, d > 0.  bool is True = 1, False = 0.  A float is   *)
(* carried as the rational it denotes; a square root that is not rational  *)
(* is cut to a multiple of 1/256.  A complex value keeps its type only.    *)

RECURSIVE GCD(_, _)
GCD(a, b) == IF b = 0 THEN a ELSE GCD(b, a % b)

Abs(x) == IF x < 0 THEN 0 - x ELSE x

Sign(x) == IF x < 0 THEN 0 - 1 ELSE 1

\* n/d in lowest terms with a positive denominator
Rat(n, d) ==
  LET g == GCD(Abs(n), Abs(d))
  IN [n |-> Sign(d) * (n \div g), d |-> Abs(d) \div g]

RatOf(x) == [n |-> x.n, d |-> x.d]

RatLess(x, y) == x.n * y.d < y.n * x.d

RatFloor(x) == x.n \div x.d

RECURSIVE RatPow(_, _)
\* x to the integer power k
RatPow(x, k) ==
  IF k = 0 THEN Rat(1, 1)
  ELSE IF k < 0 THEN LET r == RatPow(x, 0 - k) IN Rat(r.d, r.n)
  ELSE LET r == RatPow(x, k - 1) IN Rat(r.n * x.n, r.d * x.d)

RECURSIVE ISqrt(_)
ISqrt(x) ==
  IF x < 2 THEN x
  ELSE LET s == 2 * ISqrt(x \div 4) IN IF (s + 1) * (s + 1) <= x THEN s + 1 ELSE s

RatSqrt(x) ==
  IF ISqrt(x.n) * ISqrt(x.n) = x.n /\ ISqrt(x.d) * ISqrt(x.d) = x.d
  THEN Rat(ISqrt(x.n), ISqrt(x.d))
  ELSE Rat(ISqrt(x.n * x.d * 65536), x.d * 256)

IsFloat(x) == x.t = "float"

\* type of x + y, x - y, x * y, x % y
ArithType(x, y) == IF IsFloat(x) \/ IsFloat(y) THEN "float" ELSE "int"

Returns(t, q) == [err |-> "none", val |-> PyNum(t, q.n, q.d)]

Throws(e) == [err |-> e, val |-> None]

PyBool(b) == [err |-> "none", val |-> PyNum("bool", IF b THEN 1 ELSE 0, 1)]

PyAdd(x, y) == Returns(ArithType(x, y), Rat(x.n * y.d + y.n * x.d, x.d * y.d))

PySub(x, y) == Returns(ArithType(x, y), Rat(x.n * y.d - y.n * x.d, x.d * y.d))

PyMul(x, y) == Returns(ArithType(x, y), Rat(x.n * y.n, x.d * y.d))

PyDiv(x, y) ==
  IF y.n = 0 THEN Throws("ZeroDivisionError")
  ELSE Returns("float", Rat(x.n * y.d, x.d * y.n))

\* x - y * floor(x / y)
PyMod(x, y) ==
  IF y.n = 0 THEN Throws("ZeroDivisionError")
  ELSE LET q == RatFloor(Rat(x.n * y.d, x.d * y.n))
       IN Returns(ArithType(x, y), Rat(x.n * y.d - q * y.n * x.d, x.d * y.d))

PyPow(x, y) ==
  IF ~IsFloat(x) /\ ~IsFloat(y)
  THEN IF y.n >= 0 THEN Returns("int", RatPow(RatOf(x), y.n))
       ELSE IF x.n = 0 THEN Throws("ZeroDivisionError")
       ELSE Returns("float", RatPow(RatOf(x), y.n))
  ELSE IF x.n = 0 /\ y.n < 0 THEN Throws("ZeroDivisionError")
  ELSE IF y.d = 1 THEN Returns("float", RatPow(RatOf(x), y.n))
  \* a negative base to a fractional power is a complex number
  ELSE IF x.n < 0 THEN [err |-> "none", val |-> PyNum("complex", 0, 1)]
  ELSE Returns("float", RatPow(RatSqrt(RatOf(x)), y.n))

PyEq(x, y) == PyBool(RatOf(x) = RatOf(y))

PyLess(x, y) == PyBool(RatLess(RatOf(x), RatOf(y)))

PyLessEq(x, y) == PyBool(~RatLess(RatOf(y), RatOf(x)))

-----------------------------------------------------------------------------
(* src/AST/numerical.py: the method table and the adapter.                 *)

NumericalMethodNames ==
  { "#add", "#substract_left", "#multiply", "#divide_left", "#modulo_left", "#exponent_left",
    "#equal", "#not_equal", "#lesser_left", "#lesser_equal_left", "#greater_left",
    "#greater_equal_left", "#substract_right", "#divide_right", "#modulo_right",
    "#exponent_right", "#lesser_right", "#lesser_equal_right", "#greater_right",
    "#greater_equal_right" }

\* numerical_methods[name](x, y)
numerical_methods(name, x, y) ==
  CASE name = "#add" -> PyAdd(x, y)
    [] name = "#substract_left" -> PySub(x, y)
    [] name = "#multiply" -> PyMul(x, y)
    [] name = "#divide_left" -> PyDiv(x, y)
    [] name = "#modulo_left" -> PyMod(x, y)
    [] name = "#exponent_left" -> PyPow(x, y)
    [] name = "#equal" -> PyEq(x, y)
    [] name = "#not_equal" -> PyBool(RatOf(x) # RatOf(y))
    [] name = "#lesser_left" -> PyLess(x, y)
    [] name = "#lesser_equal_left" -> PyLessEq(x, y)
    [] name = "#greater_left" -> PyLess(y, x)
    [] name = "#greater_equal_left" -> PyLessEq(y, x)
    [] name = "#substract_right" -> PySub(y, x)
    [] name = "#divide_right" -> PyDiv(y, x)
    [] name = "#modulo_right" -> PyMod(y, x)
    [] name = "#exponent_right" -> PyPow(y, x)
    [] name = "#lesser_right" -> PyLess(y, x)
    [] name = "#lesser_equal_right" -> PyLessEq(y, x)
    [] name = "#greater_right" -> PyLess(x, y)
    [] name = "#greater_equal_right" -> PyLessEq(x, y)

\* numerical_compatible(numerical_methods[name])(this, other)
numerical_compatible(name, this_, other_) ==
  IF other_.k \notin {"Int", "Float", "Bool"} THEN Throws("AssertionError")
  ELSE LET r == numerical_methods(name, this_.value, other_.value)
       IN IF r.err # "none" THEN r
          ELSE IF r.val.t = "int" THEN [err |-> "none", val |-> Int_(r.val)]
          ELSE IF r.val.t = "float" THEN [err |-> "none", val |-> Float(r.val)]
          ELSE IF r.val.t = "bool" THEN [err |-> "none", val |-> Bool(r.val)]
          \* no branch is left for any other type: the function ends
          ELSE [err |-> "none", val |-> None]

-----------------------------------------------------------------------------
(* src/numerical.py: the earlier method table and adapter.                 *)

LegacyMethodNames ==
  { "operator_add", "operator_substract", "operator_multiply", "operator_divide",
    "operator_modulo", "operator_exponent", "operator_opposite", "abs" }

LegacyUnary == {"operator_opposite", "abs"}

\* numerical_methods[name] before the adapter wraps it; unary methods ignore y
legacy_numerical_methods(name, x, y) ==
  CASE name = "operator_add" -> PyAdd(x, y)
    [] name = "operator_substract" -> PySub(x, y)
    [] name = "operator_multiply" -> PyMul(x, y)
    [] name = "operator_divide" -> PyDiv(x, y)
    [] name = "operator_modulo" -> PyMod(x, y)
    [] name = "operator_exponent" -> PyPow(x, y)
    [] name = "operator_opposite" -> Returns(IF IsFloat(x) THEN "float" ELSE "int", Rat(0 - x.n, x.d))
    [] name = "abs" -> Returns(IF IsFloat(x) THEN "float" ELSE "int", Rat(Abs(x.n), x.d))

legacy_numerical_compatible(name, this_, other_) ==
  LET r == legacy_numerical_methods(name, this_.value, other_.value)
  IN IF r.err # "none" THEN r
     ELSE IF r.val.t = "int" THEN [err |-> "none", val |-> Int_(r.val)]
     ELSE [err |-> "none", val |-> Float(r.val)]

-----------------------------------------------------------------------------
(* Calls of the numeric methods: one call of one method per behaviour.     *)

IntValues == {0 - 4, 0 - 1, 0, 1, 4, 7, 2}

FloatValues == {Rat(0 - 1, 2), Rat(0, 1), Rat(1, 2), Rat(2, 1), Rat(3, 2)}

Receivers ==
  {Int_(PyNum("int", n, 1)) : n \in IntValues} \cup {Float(PyNum("float", q.n, q.d)) : q \in FloatValues}

Arguments ==
  Receivers \cup {Bool(PyNum("bool", 1, 1)), Bool(PyNum("bool", 0, 1)), String("s")}

InitNum ==
  /\ tokens = <<Eof>>
  /\ pos = 0
  /\ status = "ready"
  /\ op = "__init__"
  /\ result = Ok(0, None, FALSE)
  /\ this = None /\ other = None /\ method = "" /\ boxed = None

NumericCall ==
  /\ method = ""
  /\ \E t \in Receivers, o \in Arguments, name \in NumericalMethodNames :
    /\ this' = t
    /\ other' = o
    /\ method' = name
    /\ boxed' = numerical_compatible(name, t, o)
    /\ UNCHANGED parserVars

LegacyCall ==
  /\ method = ""
  /\ \E t \in Receivers, o \in Receivers, name \in LegacyMethodNames :
    /\ this' = t
    /\ other' = IF name \in LegacyUnary THEN None ELSE o
    /\ method' = name
    /\ boxed' = legacy_numerical_compatible(name, t, o)
    /\ UNCHANGED parserVars

NextNum == NumericCall \/ LegacyCall

SpecNum == InitNum /\ [][NextNum]_vars

-----------------------------------------------------------------------------
(* The statements of the specification, each stated over the state the     *)
(* last operation left: op is the operation, result its outcome.           *)

\* C1: whenever an operation needed a token that was not at the cursor (a
\* mismatch, or the cursor past the last token), it ends by raising
\* SyntaxError: no other error is raised and nothing is returned.
C1_MissingTokenRaisesSyntaxError ==
  result.miss => (status = "raised" /\ result.err = "SyntaxError")

\* the case of C1 in the code: power_expr on  a ^ <EOF>  returns a node
C1_ReturnedAfterMiss ==
  /\ tokens = <<Name("a"), Op("^"), Eof>>
  /\ op = "power_expr" /\ status = "returned" /\ result.miss

\* the productions whose value is an AST node
NodeProductions ==
  { "statement_block", "statement_list", "statement", "special_statement", "flow_statement",
    "expr_statement", "expr", "class_definition", "function_definition", "assignment",
    "list_comp_expr", "conditional_expr", "or_expr", "and_expr", "not_expr", "in_expr",
    "comparation_expr", "term_expr", "factor_expr", "power_expr", "trailer_expr", "atom" }

RECURSIVE Complete(_), Child(_)
\* a required child: present and itself complete
Child(n) == n.k # "None" /\ Complete(n)

AllChildren(s) == \A i \in 1..Len(s) : Child(s[i])

\* node n has all its required children
Complete(n) ==
  CASE n.k = "OperatorCall" -> AllChildren(n.args)
    [] n.k \in {"AndOperation", "OrOperation"} -> Child(n.left) /\ Child(n.right)
    [] n.k = "NotOperation" -> Child(n.value)
    [] n.k = "ContainsOperation" -> Child(n.value) /\ Child(n.container)
    [] n.k = "MemberAccess" -> Child(n.object)
    [] n.k = "MemberCall" -> Child(n.object) /\ AllChildren(n.args)
    [] n.k = "FunctionCall" -> Child(n.function) /\ AllChildren(n.args)
    [] n.k = "ItemAccess" -> Child(n.object) /\ AllChildren(n.args)
    [] n.k \in {"TupleConstant", "ArrayConstant"} -> AllChildren(n.arguments)
    [] n.k = "UnpackOperation" -> Child(n.value)
    [] n.k = "Assignment" -> Child(n.object) /\ Child(n.value)
    [] n.k = "FunctionCreate" -> Child(n.body)
    [] n.k = "StatementList" -> AllChildren(n.statements)
    [] n.k \in {"ExprStatement", "ReturnStatement", "RaiseStatement"} -> Child(n.expr)
    [] n.k = "ConditionalStatement" ->
         Child(n.condition) /\ Child(n.body) /\ (n.else_body.k = "None" \/ Complete(n.else_body))
    [] n.k = "WhileStatement" -> Child(n.condition) /\ Child(n.body)
    [] n.k = "ForStatement" -> Child(n.iterable) /\ Child(n.body)
    [] OTHER -> TRUE

\* C2: every node a production returns is structurally complete: none of
\* its required children is None.
C2_ReturnedNodesComplete ==
  (status = "returned" /\ op \in NodeProductions) => Complete(result.val)

\* the case of C2 in the code: the right operand of ^ is None
C2_NoneOperand ==
  /\ tokens = <<Name("a"), Op("^"), Eof>>
  /\ op = "power_expr" /\ status = "returned"
  /\ result.val = OperatorCall("#exponent", <<Variable("a"), None>>)

\* the node of an operand written as one NAME or NUMBER token (line 376-383)
OperandNode(tok) ==
  IF tok.type = NAME THEN Variable(tok.value) ELSE Constant(Int_(tok.value))

IsOperand(tok) == tok.type \in {NAME, NUMBER}

\* tokens is  e0 o1 e1 ... on en EOF  with 1 <= n and every oi in ops
IsChain(t, ops) ==
  /\ Len(t) >= 4 /\ Len(t) % 2 = 0
  /\ t[Len(t)].type = EOF
  /\ \A i \in 1..(Len(t) - 1) :
       IF i % 2 = 1 THEN IsOperand(t[i]) ELSE t[i].type = OPERATOR /\ ValueIn(t[i], ops)

NamesOnly(t) == \A i \in 1..(Len(t) - 1) : i % 2 = 1 => t[i].type = NAME

\* the i-th comparison of a chain: ei-1 oi ei
Comparison(t, i) ==
  OperatorCall(operator_names[t[2 * i].value], <<OperandNode(t[2 * i - 1]), OperandNode(t[2 * i + 1])>>)

RECURSIVE Folded(_, _)
\* the conjunction of the first n comparisons, folded from the left
Folded(t, n) ==
  IF n = 1 THEN Comparison(t, 1) ELSE AndOperation(Folded(t, n - 1), Comparison(t, n))

\* C3: a comparison chain e0 o1 e1 ... on en parses to the left-folded
\* conjunction of the comparisons (ei-1 oi ei), each operand parsed once; one
\* comparison parses to one OperatorCall.
C3_ComparisonChainFolds ==
  [][(status = "ready" /\ pos = 0 /\ IsChain(tokens, comparation_operators) /\ op' = "comparation_expr")
       => (status' = "returned" /\ result'.val = Folded(tokens, (Len(tokens) - 2) \div 2))]_vars

\* the case of C3 in the code: the chain  2 < 3 < 2  raises on its first literal
C3_LiteralChainRaises ==
  /\ tokens = <<Num(2), Op("<"), Num(3), Op("<"), Num(2), Eof>>
  /\ op = "comparation_expr" /\ status = "raised" /\ result.err = "UnboundLocalError" /\ pos = 1

\* what the code does keep of C3: chains whose operands are names fold as stated
C3_NameChainsFold ==
  [][(status = "ready" /\ pos = 0 /\ IsChain(tokens, comparation_operators) /\ NamesOnly(tokens)
        /\ op' = "comparation_expr")
       => (status' = "returned" /\ result'.val = Folded(tokens, (Len(tokens) - 2) \div 2))]_vars

RECURSIVE LeftNested(_, _)
\* ((e0 o1 e1) o2 e2) ... on en
LeftNested(t, n) ==
  IF n = 0 THEN OperandNode(t[1])
  ELSE OperatorCall(operator_names[t[2 * n].value], <<LeftNested(t, n - 1), OperandNode(t[2 * n + 1])>>)

\* C4: the power operator is left-associative: a ^ b ^ c parses to
\* OperatorCall("#exponent", [OperatorCall("#exponent", [a, b]), c]).
C4_PowerLeftAssociative ==
  [][(status = "ready" /\ pos = 0 /\ IsChain(tokens, {"^"}) /\ op' = "power_expr")
       => (status' = "returned" /\ result'.val = LeftNested(tokens, (Len(tokens) - 2) \div 2))]_vars

\* the case of C4 in the code:  2 ^ 3 ^ 2  raises on its first literal
C4_LiteralPowerRaises ==
  /\ tokens = <<Num(2), Op("^"), Num(3), Op("^"), Num(2), Eof>>
  /\ op = "power_expr" /\ status = "raised" /\ result.err = "UnboundLocalError" /\ pos = 1

\* what the code does keep of C4: with names as operands the nesting is left
C4_NamePowerLeftAssociative ==
  [][(status = "ready" /\ pos = 0 /\ IsChain(tokens, {"^"}) /\ NamesOnly(tokens) /\ op' = "power_expr")
       => (status' = "returned" /\ result'.val = LeftNested(tokens, (Len(tokens) - 2) \div 2))]_vars

ArithmeticOperators == {"+", "-", "*", "/", "%", "^"}

\* the level of an operator on the ladder additive < multiplicative < power
Level(o) == IF o \in {"+", "-"} THEN 1 ELSE IF o \in {"*", "/", "%"} THEN 2 ELSE 3

\* the parse the ladder gives to  e0 o1 e1  and to  e0 o1 e1 o2 e2
Ladder(t) ==
  IF Len(t) = 4 \/ Level(t[4].value) <= Level(t[2].value)
  THEN LeftNested(t, (Len(t) - 2) \div 2)
  ELSE OperatorCall(operator_names[t[2].value],
         <<OperandNode(t[1]),
           OperatorCall(operator_names[t[4].value], <<OperandNode(t[3]), OperandNode(t[5])>>)>>)

\* C5: in a sequence mixing + - with * / % and ^ an operator of a higher
\* level is nested inside the adjacent operator of a lower level, and
\* operators of one level associate to the left:  2 + 3 * 4  is 2 + (3 * 4).
C5_PrecedenceLadder ==
  [][(status = "ready" /\ pos = 0 /\ IsChain(tokens, ArithmeticOperators) /\ Len(tokens) <= 6
        /\ op' = "term_expr")
       => (status' = "returned" /\ result'.val = Ladder(tokens))]_vars

\* the case of C5 in the code:  2 + 3 * 2  raises on its first literal
C5_LiteralSumRaises ==
  /\ tokens = <<Num(2), Op("+"), Num(3), Op("*"), Num(2), Eof>>
  /\ op = "term_expr" /\ status = "raised" /\ result.err = "UnboundLocalError" /\ pos = 1

\* what the code does keep of C5: with names as operands the ladder holds
C5_NamePrecedenceLadder ==
  [][(status = "ready" /\ pos = 0 /\ IsChain(tokens, ArithmeticOperators) /\ Len(tokens) <= 6
        /\ NamesOnly(tokens) /\ op' = "term_expr")
       => (status' = "returned" /\ result'.val = Ladder(tokens))]_vars

-----------------------------------------------------------------------------
(* C6: trailer chains.                                                     *)

\* an atom followed by member accesses, calls and index accesses, then EOF
TrailerPrograms == Cat(TrailerStreams, {<<Eof>>})

\* C6: trailer_expr called at the start of any chain of trailers over an
\* atom returns with every trailer token consumed: the cursor is left on the
\* EOF token that ends the stream
C6_TrailersAllConsumed ==
  [][(status = "ready" /\ pos = 0 /\ tokens \in TrailerPrograms /\ op' = "trailer_expr")
       => (status' = "returned" /\ pos' = Len(tokens) - 1)]_vars

\* a . b . c: the call returns MemberAccess(a, b) with ". c" left unread
C6_SecondMemberLeftUnread ==
  /\ tokens = <<Name("a"), Dot, Name("b"), Dot, Name("c"), Eof>>
  /\ op = "trailer_expr"
  /\ status = "returned"
  /\ pos = 3
  /\ result.val = MemberAccess(Variable("a"), "b")

\* a . b ( ): the call after the member access is left unread as well, so no
\* MemberCall is built
C6_MemberCallLeftUnread ==
  /\ tokens = <<Name("a"), Dot, Name("b"), Grp("("), Grp(")"), Eof>>
  /\ op = "trailer_expr"
  /\ status = "returned"
  /\ pos = 3
  /\ result.val.k = "MemberAccess"

-----------------------------------------------------------------------------
(* C7: the numeric adapter.                                                *)

NumericKinds == {"Int", "Float", "Bool"}

ComparisonMethods ==
  { "#equal", "#not_equal", "#lesser_left", "#lesser_equal_left", "#greater_left",
    "#greater_equal_left", "#lesser_right", "#lesser_equal_right", "#greater_right",
    "#greater_equal_right" }

\* a call of a method of the numeric table on numeric operands that did not raise
AdapterReturned ==
  /\ method \in NumericalMethodNames
  /\ other.k \in NumericKinds
  /\ boxed.err = "none"

\* C7: whenever the adapter of the numeric method table returns, it returns a
\* box, never nothing; the box is an Int, a Float or a Bool; a comparison
\* gives a Bool, int #add int gives an Int, and a division gives a Float
C7_ResultsReboxedByKind ==
  AdapterReturned =>
    /\ boxed.val # None
    /\ boxed.val.k \in NumericKinds
    /\ (method \in ComparisonMethods => boxed.val.k = "Bool")
    /\ (method = "#add" /\ this.k = "Int" /\ other.k = "Int" => boxed.val.k = "Int")
    /\ (method \in {"#divide_left", "#divide_right"} => boxed.val.k = "Float")

\* Int(-1) #exponent_left Float(0.5): the native result is a complex number
\* and the adapter returns nothing
C7_ComplexPowerReturnsNothing ==
  /\ method = "#exponent_left"
  /\ this = Int_(PyNum("int", 0 - 1, 1))
  /\ other = Float(PyNum("float", 1, 2))
  /\ boxed = [err |-> "none", val |-> None]

\* the same statement without the powers: every other method of the table
\* reboxes by kind
C7_OtherMethodsReboxedByKind ==
  method \notin {"#exponent_left", "#exponent_right"} => C7_ResultsReboxedByKind

-----------------------------------------------------------------------------
(* C8: programs.                                                           *)

FunctionBlock ==
  <<Kw("function"), Name("f"), Grp("("), Name("a"), Grp(")"), Grp("{"), Kw("break"), Semi, Grp("}")>>

\* well-formed statements, the node each parses to, and whether it ends in a
\* `}`-terminated block
StatementForms ==
  { [toks |-> <<Kw("break")>>, kinds |-> <<"BreakStatement">>, block |-> FALSE],
    [toks |-> <<Kw("continue")>>, kinds |-> <<"ContinueStatement">>, block |-> FALSE],
    [toks |-> FunctionBlock, kinds |-> <<"Assignment">>, block |-> TRUE] }

RECURSIVE Programs(_)
\* statement (";" statement)* of at most n statements; the semicolon may be
\* left out after a statement that ends in a block
Programs(n) ==
  IF n = 1 THEN StatementForms
  ELSE Programs(n - 1)
         \cup { [toks |-> q.toks \o <<Semi>> \o s.toks, kinds |-> q.kinds \o s.kinds, block |-> s.block] :
                  q \in Programs(n - 1), s \in StatementForms }
         \cup { [toks |-> q.toks \o s.toks, kinds |-> q.kinds \o s.kinds, block |-> s.block] :
                  q \in {x \in Programs(n - 1) : x.block}, s \in StatementForms }

WellFormedPrograms == Programs(MaxStatements)

\* C8: statement_list called at the start of a program statement (";"
\* statement)* returns a StatementList that holds exactly the statements of
\* the program, in source order
C8_ProgramsParse ==
  [][(status = "ready" /\ pos = 0 /\ op' = "statement_list")
       => \A q \in WellFormedPrograms :
            tokens = q.toks \o <<Eof>> =>
              /\ status' = "returned"
              /\ result'.val.k = "StatementList"
              /\ Len(result'.val.statements) = Len(q.kinds)
              /\ \A i \in 1..Len(q.kinds) : result'.val.statements[i].k = q.kinds[i]]_vars

\* break ; continue: break has eaten the semicolon itself and the loop of
\* statement_list asks for another one
C8_SeparatedStatementsRaise ==
  /\ tokens = <<Kw("break"), Semi, Kw("continue"), Eof>>
  /\ op = "statement_list"
  /\ status = "raised"
  /\ result.err = "SyntaxError"
  /\ pos = 2

-----------------------------------------------------------------------------
(* C9: parameter lists.                                                    *)

ParamKinds == {"plain", "default", "variadic"}

\* the parameter lists of at most MaxParams parameters, by kind
ParameterLists == UNION {[1..n -> ParamKinds] : n \in 0..MaxParams}

ParamTokens(kind) ==
  CASE kind = "plain" -> <<Name("a")>>
    [] kind = "default" -> <<Name("b"), Assign>> \o FunctionG
    [] kind = "variadic" -> <<Ellipsis, Name("r")>>

RECURSIVE ParamListTokens(_)
ParamListTokens(l) ==
  IF l = <<>> THEN <<>>
  ELSE IF Len(l) = 1 THEN ParamTokens(l[1])
  ELSE ParamTokens(l[1]) \o <<Comma>> \o ParamListTokens(Tail(l))

\* function f ( params ) break ;
FunctionTokens(l) ==
  <<Kw("function"), Name("f"), Grp("(")>> \o ParamListTokens(l) \o <<Grp(")"), Kw("break"), Semi, Eof>>

\* the variadic parameter is the single tail, and the defaulted parameters
\* are a contiguous suffix of the others
Accepted(l) ==
  /\ \A i \in 1..Len(l) : l[i] = "variadic" => i = Len(l)
  /\ \A i \in 1..Len(l) : \A j \in 1..Len(l) : ~(i < j /\ l[i] = "default" /\ l[j] = "plain")

\* C9: function_definition called at the start of a function definition
\* returns exactly when the parameter list is well formed: plain and
\* defaulted parameters and at most one variadic tail, with defaults only on a
\* contiguous suffix of the non-variadic parameters; the empty list, the
\* variadic-only list and a default on the first parameter are accepted
C9_ParameterListsAccepted ==
  [][(status = "ready" /\ pos = 0 /\ op' = "function_definition")
       => \A l \in ParameterLists :
            tokens = FunctionTokens(l) => (Accepted(l) <=> status' = "returned")]_vars

\* function f ( ) break ;: the empty parameter list is refused
C9_EmptyListRefused ==
  /\ tokens = FunctionTokens(<<>>)
  /\ op = "function_definition"
  /\ status = "raised"
  /\ result.err = "SyntaxError"
  /\ pos = 3

\* function f ( ...r ) break ;: the variadic-only list is refused
C9_VariadicOnlyRefused ==
  /\ tokens = FunctionTokens(<<"variadic">>)
  /\ op = "function_definition"
  /\ status = "raised"

\* function f ( b = g ) break ;: a default on the first parameter is refused
C9_FirstDefaultRefused ==
  /\ tokens = FunctionTokens(<<"default">>)
  /\ op = "function_definition"
  /\ status = "raised"

\* function f ( a, b = g, a ) break ;: a default in the middle is accepted
C9_MiddleDefaultAccepted ==
  /\ tokens = FunctionTokens(<<"plain", "default", "plain">>)
  /\ op = "function_definition"
  /\ status = "returned"

-----------------------------------------------------------------------------
(* C10: binary operators.                                                  *)

\* the dispatch protocol on a numeric class: a symmetric operator is looked
\* up by its name, a non-symmetric one by its _left and _right variants
Resolvable(name) ==
  \/ name \in NumericalMethodNames
  \/ /\ name \o "_left" \in NumericalMethodNames
     /\ name \o "_right" \in NumericalMethodNames

\* a <operator> b, where b is a name or, after `in`, a function definition
BinaryPrograms ==
  [o \in BinaryOperators |->
     {<<Name("a"), Op(o), Name("a"), Eof>>}
       \cup (IF o = "in" THEN Cat(ContainsStreams, {<<Eof>>}) ELSE {})]

\* C10: in_expr called at the start of a <operator> b, for every binary
\* operator of the source syntax, returns an OperatorCall whose method name is
\* the operator's name in operator_names, and a numeric class resolves that
\* name
C10_BinaryOperatorsDesugar ==
  [][(status = "ready" /\ pos = 0 /\ op' = "in_expr")
       => \A o \in BinaryOperators :
            tokens \in BinaryPrograms[o] =>
              /\ status' = "returned"
              /\ result'.val.k = "OperatorCall"
              /\ result'.val.name = operator_names[o]
              /\ Resolvable(result'.val.name)]_vars

\* a in function g(x) break;: the parser builds a ContainsOperation, not an
\* OperatorCall of #contains
C10_InBuildsContainsOperation ==
  /\ tokens \in BinaryPrograms["in"]
  /\ op = "in_expr"
  /\ status = "returned"
  /\ result.val.k = "ContainsOperation"

\* a in a: the right operand is parsed by expr, which looks up a method the
\* parser does not have
C10_InNameRaises ==
  /\ tokens = <<Name("a"), Op("in"), Name("a"), Eof>>
  /\ op = "in_expr"
  /\ status = "raised"
  /\ result.err = "AttributeError"

\* the statement holds for the other twelve operators
C10_OtherOperatorsDesugar ==
  [][(status = "ready" /\ pos = 0 /\ op' = "in_expr")
       => \A o \in BinaryOperators \ {"in"} :
            tokens \in BinaryPrograms[o] =>
              /\ status' = "returned"
              /\ result'.val = OperatorCall(operator_names[o], <<Variable("a"), Variable("a")>>)
              /\ Resolvable(result'.val.name)]_vars

\* #contains is not a method of the numeric classes, under any variant
C10_ContainsNotResolvable == ~Resolvable(operator_names["in"])

-----------------------------------------------------------------------------
(* C11: class definitions.                                                 *)

\* class A [extends B] { members } [;]
ClassPrograms == Cat(ClassStreams, {<<Eof>>})

HasExtends(t) == t[3] = Kw("extends")

\* the cursor just past the closing brace, which is the last brace of t
PastClosingBrace(t) == IF t[Len(t) - 1] = Semi THEN Len(t) - 2 ELSE Len(t) - 1

\* the names of the members of each kind
MethodNames(t) == {t[i].value : i \in {j \in 2..Len(t) : t[j - 1] = Kw("function") /\ t[j] = Name("m")}}

StaticNames(t) ==
  {t[i].value : i \in {j \in 2..Len(t) - 1 :
                         \/ t[j - 1] = Kw("function") /\ t[j] = Name("g")
                         \/ t[j].type = NAME /\ t[j + 1] = Assign}}

\* C11: class_definition called at the start of a well-formed class
\* definition, with or without an extends clause, returns
\* Assignment(Variable(name), ClassCreate(name, methods, statics, parent_name))
\* with the parent's name or none, the function members in methods, the
\* static functions and the fields in statics, and the cursor just past the
\* closing brace
C11_ClassDefinitionParses ==
  [][(status = "ready" /\ pos = 0 /\ tokens \in ClassPrograms /\ op' = "class_definition")
       => /\ status' = "returned"
          /\ result'.val.k = "Assignment"
          /\ result'.val.object = Variable("A")
          /\ result'.val.value.k = "ClassCreate"
          /\ result'.val.value.name = "A"
          /\ result'.val.value.parent_name = (IF HasExtends(tokens) THEN "B" ELSE None)
          /\ DOMAIN result'.val.value.methods = MethodNames(tokens)
          /\ DOMAIN result'.val.value.statics = StaticNames(tokens)
          /\ pos' = PastClosingBrace(tokens)]_vars

\* class A { function m(a) break; static function g(x) break; }: the node is
\* the one described, but the closing brace is not eaten
C11_ClosingBraceLeftUnread ==
  /\ tokens \in ClassPrograms
  /\ ~HasExtends(tokens)
  /\ MethodNames(tokens) = {"m"} /\ StaticNames(tokens) = {"g"}
  /\ op = "class_definition"
  /\ status = "returned"
  /\ result.val.object = Variable("A")
  /\ result.val.value.k = "ClassCreate"
  /\ result.val.value.parent_name = None
  /\ DOMAIN result.val.value.methods = {"m"}
  /\ DOMAIN result.val.value.statics = {"g"}
  /\ tokens[pos + 1] = Grp("}")

\* class A extends B { }: eat is given the string "KEYWORD", which is no
\* token type
C11_ExtendsRaises ==
  /\ tokens = <<Kw("class"), Name("A"), Kw("extends"), Name("B"), Grp("{"), Grp("}"), Eof>>
  /\ op = "class_definition"
  /\ status = "raised"
  /\ result.err = "SyntaxError"
  /\ pos = 2

\* class A { x = 2 }: a field assignment is parsed by assignment, which
\* reaches the method lookup that fails
C11_FieldRaises ==
  /\ tokens = <<Kw("class"), Name("A"), Grp("{"), Name("x"), Assign, Num(2), Grp("}"), Eof>>
  /\ op = "class_definition"
  /\ status = "raised"
  /\ result.err = "AttributeError"

-----------------------------------------------------------------------------
(* C12: the cursor.                                                        *)

\* 0 <= pos <= len(tokens)
CursorInBounds == 0 <= pos /\ pos <= Len(tokens)

\* the one step back: an operation that reads the current token when the
\* cursor is at len(tokens) moves it to the last token and raises
StepBackAtEnd ==
  /\ pos = Len(tokens)
  /\ pos' = pos - 1
  /\ status' = "raised"
  /\ result'.err = "SyntaxError"

\* C12, as stated: no parser operation leaves the cursor lower than it found
\* it
C12_CursorNeverMovesBack == [][pos' >= pos]_vars

\* C12, amended: the cursor stays within 0..len(tokens) in every reachable
\* state, and no parser operation leaves it lower than it found it, except
\* that an operation started with the cursor at len(tokens) which reads the
\* current token leaves it one lower and raises SyntaxError
C12_SinglePassExceptAtEnd ==
  /\ []CursorInBounds
  /\ [][pos' >= pos \/ StepBackAtEnd]_vars

\* the token property read after the last token was eaten: SyntaxError, with
\* the cursor back on the last token
C12_SteppedBackAtEnd ==
  /\ op = "token"
  /\ status = "raised"
  /\ result.err = "SyntaxError"
  /\ pos = Len(tokens) - 1

====
